---- MODULE Spec2Model ----
(***************************************************************************)
(* precision-farm: the external-data aggregation layer of src/main.py.     *)
(*                                                                         *)
(* EuropeanAgriDataService keeps a dictionary cache of upstream payloads   *)
(* with a 24 hour validity and four fetchers (get_fsdn_data,               *)
(* get_fast_platform_data, get_market_prices, get_weather_data) that       *)
(* consult the cache, call the upstream with requests.get and fall back    *)
(* to a static payload when the try block raises.  The Streamlit pages     *)
(* (main, land_management_page) call the fetchers from button handlers.    *)
(*                                                                         *)
(* Time is counted in hours.  Coordinates are fixed-point numbers in       *)
(* units of 1/10000 degree (43.7711 is 437711).                            *)
(***************************************************************************)
EXTENDS Integers, Sequences, FiniteSets, TLC

VARIABLES
    cache,      \* self.cache of the service in use: key -> [timestamp, data]
    clock,      \* datetime.now(), in hours
    calls,      \* per thread: the fetcher call in progress or last returned
    prev,       \* history: the call that came before it on the service
    fetched,    \* history of the service in use: key -> last payload a call
                \* fetched from the upstream, when, and which call it was
    handler,    \* the Streamlit button handler being run
    ncalls,     \* number of fetcher calls the direct caller has started
    nclicks     \* number of button clicks served

vars == <<cache, clock, calls, prev, fetched, handler, ncalls, nclicks>>

----------------------------------------------------------------------------
(* Bounds of the model *)

MaxCalls == 2
MaxClicks == 2
MaxClock == 36
MaxConcCalls == 3

\* datetime.now() advances by these amounts between two steps
ClockSteps == {12}

----------------------------------------------------------------------------
(* Python values *)

\* the value of a variable that has not been assigned
Null == [null |-> TRUE]

\* a dictionary with no entries (self.cache = {})
EmptyDict == <<>>

HasKey(d, k) == k \in DOMAIN d

\* d.get(k, default)
DictGet(d, k, default) == IF HasKey(d, k) THEN d[k] ELSE default

\* d[k] = v on a dictionary
DictSet(d, k, v) == [x \in (DOMAIN d) \cup {k} |-> IF x = k THEN v ELSE d[x]]

----------------------------------------------------------------------------
(* Request parameters *)

\* keys of the regions dictionary of main()
Regions == {"Tuscany", "Bavaria"}

\* regions[...]["coordinates"] of main(): (lat, lon)
RegionCoordinates ==
    [r \in Regions |-> IF r = "Tuscany" THEN <<437711, 112486>>
                                          ELSE <<487904, 114979>>]

\* (lat, lon) of the first vertex of a field drawn on the map of the land
\* page, some 80 metres north of the Bavaria point
FieldCoordinates == {<<487911, 114979>>}

Fetchers == {"fsdn", "fast", "prices", "weather"}

\* the argument tuples a fetcher is called with
Params(f) ==
    CASE f = "fsdn"    -> {<<r>> : r \in Regions}
      [] f = "fast"    -> {<<r>> : r \in Regions}
      [] f = "prices"  -> {<<>>}
      [] f = "weather" -> {RegionCoordinates[r] : r \in Regions} \cup FieldCoordinates

----------------------------------------------------------------------------
(* Formatting of a float in an f-string: shortest repr, at least one       *)
(* fractional digit, no trailing zeros.                                    *)

Pow10(n) == CASE n = 0 -> 1 [] n = 1 -> 10 [] n = 2 -> 100 [] n = 3 -> 1000
              [] OTHER -> 10000

RECURSIVE ZeroPad(_, _)
ZeroPad(f, w) ==
    IF w <= 1 THEN ToString(f)
    ELSE IF f < Pow10(w - 1) THEN "0" \o ZeroPad(f, w - 1) ELSE ToString(f)

RECURSIVE FracDigits(_, _)
FracDigits(f, w) ==
    IF w > 1 /\ f % 10 = 0 THEN FracDigits(f \div 10, w - 1) ELSE ZeroPad(f, w)

FormatFloat(q) ==
    LET a == IF q < 0 THEN 0 - q ELSE q
    IN  (IF q < 0 THEN "-" ELSE "") \o ToString(a \div 10000) \o "."
            \o FracDigits(a % 10000, 4)

\* keys in which the two region-keyed fetchers use one prefix
Key_SharedPrefix(f, p) ==
    CASE f = "fsdn"    -> "region_" \o p[1]
      [] f = "fast"    -> "region_" \o p[1]
      [] f = "prices"  -> "prices"
      [] f = "weather" -> "weather_" \o FormatFloat(p[1]) \o "_" \o FormatFloat(p[2])

\* the cache key each fetcher builds from its arguments
Key(f, p) ==
    CASE f = "fsdn"    -> "fsdn_" \o p[1]
      [] f = "fast"    -> "fast_" \o p[1]
      [] f = "prices"  -> "prices"
      [] f = "weather" -> "weather_" \o FormatFloat(p[1]) \o "_" \o FormatFloat(p[2])

----------------------------------------------------------------------------
(* The upstream services, as requests.get and Response.json see them *)

HtmlDoc == "<html>502 Bad Gateway</html>"
ErrorDoc == "{message:Internal Server Error}"

\* bodies of the shape section 6 of the interface expects, two per source
GoodDocs(f) ==
    CASE f = "fsdn"    -> {"{soil_health:good,water_efficiency:low,biodiversity:high}",
                           "{soil_health:poor,water_efficiency:low,biodiversity:high}"}
      [] f = "fast"    -> {"{soil_nutrients:rich,recommended_practices:[cover_crops]}",
                           "{soil_nutrients:poor,recommended_practices:[cover_crops]}"}
      [] f = "prices"  -> {"{Wheat:{price:260,unit:EUR/tonne}}",
                           "{Wheat:{price:270,unit:EUR/tonne}}"}
      [] f = "weather" -> {"{main:{temp:18,humidity:60,pressure:1013}}",
                           "{main:{temp:25,humidity:60,pressure:1013}}"}

\* what requests.get(url) does: it raises, or it returns a Response whatever
\* the status code is (the fetchers pass no timeout and never look at the
\* status code)
Raises(e) == [raised |-> TRUE, exc |-> e, status_code |-> 0, text |-> ""]
Response(s, b) == [raised |-> FALSE, exc |-> "", status_code |-> s, text |-> b]
NoOutcome == [raised |-> FALSE, exc |-> "", status_code |-> 0, text |-> ""]

UpstreamOutcomes(f) ==
    {Raises("ConnectionError")}
        \cup {Response(200, b) : b \in GoodDocs(f) \cup {ErrorDoc, HtmlDoc}}
        \cup {Response(500, b) : b \in {ErrorDoc, HtmlDoc}}

\* json.loads on the documents above
ParseJson(text) ==
    CASE text = "{soil_health:good,water_efficiency:low,biodiversity:high}" ->
            [soil_health |-> "good", water_efficiency |-> "low", biodiversity |-> "high"]
      [] text = "{soil_health:poor,water_efficiency:low,biodiversity:high}" ->
            [soil_health |-> "poor", water_efficiency |-> "low", biodiversity |-> "high"]
      [] text = "{soil_nutrients:rich,recommended_practices:[cover_crops]}" ->
            [soil_nutrients |-> "rich", recommended_practices |-> <<"cover_crops">>]
      [] text = "{soil_nutrients:poor,recommended_practices:[cover_crops]}" ->
            [soil_nutrients |-> "poor", recommended_practices |-> <<"cover_crops">>]
      [] text = "{Wheat:{price:260,unit:EUR/tonne}}" ->
            [Wheat |-> [price |-> 260, unit |-> "EUR/tonne"]]
      [] text = "{Wheat:{price:270,unit:EUR/tonne}}" ->
            [Wheat |-> [price |-> 270, unit |-> "EUR/tonne"]]
      [] text = "{main:{temp:18,humidity:60,pressure:1013}}" ->
            [main |-> [temp |-> 18, humidity |-> 60, pressure |-> 1013]]
      [] text = "{main:{temp:25,humidity:60,pressure:1013}}" ->
            [main |-> [temp |-> 25, humidity |-> 60, pressure |-> 1013]]
      [] text = ErrorDoc ->
            [message |-> "Internal Server Error"]

IsJson(text) == text # HtmlDoc /\ text # ""

\* response.json(): the parsed body, or JSONDecodeError; the status code
\* plays no part
response_json(response) ==
    IF IsJson(response.text)
    THEN [raised |-> FALSE, exc |-> "", value |-> ParseJson(response.text)]
    ELSE [raised |-> TRUE, exc |-> "JSONDecodeError", value |-> Null]

\* str(e)
ExceptionText(e) ==
    CASE e = "ConnectionError" -> "Max retries exceeded"
      [] e = "JSONDecodeError" -> "Expecting value: line 1 column 1 (char 0)"
      [] OTHER -> e

----------------------------------------------------------------------------
(* EuropeanAgriDataService *)

\* self.cache_duration = timedelta(hours=24)
cache_duration == 24

\* a put into a cache that holds one entry at a time
_cache_data_evicting(c, now, key, data) ==
    DictSet(EmptyDict, key, [timestamp |-> now, data |-> data])

\* a put that keeps the entry a key already has (dict.setdefault)
_cache_data_setdefault(c, now, key, data) ==
    IF HasKey(c, key) THEN c ELSE DictSet(c, key, [timestamp |-> now, data |-> data])

\* an entry stamped with the start of the clock, not the time of the write
_cache_data_unstamped(c, now, key, data) ==
    DictSet(c, key, [timestamp |-> 0, data |-> data])

_cache_data(c, now, key, data) ==
    DictSet(c, key, [timestamp |-> now, data |-> data])

\* the validity check with the age compared by <=
_is_cache_valid_inclusive(c, now, key) ==
    HasKey(c, key) /\ now - c[key].timestamp <= cache_duration

\* the validity check with the comparison turned round
_is_cache_valid_inverted(c, now, key) ==
    HasKey(c, key) /\ now - c[key].timestamp > cache_duration

_is_cache_valid(c, now, key) ==
    HasKey(c, key) /\ now - c[key].timestamp < cache_duration

\* the payload of each fetcher's except clause
Fallback(f, e) ==
    CASE f = "fsdn" ->
            [sustainability_metrics |->
                [soil_health |-> "medium", water_efficiency |-> "high",
                 biodiversity |-> "medium"]]
      [] f = "fast" ->
            [soil_nutrients |-> "moderate",
             recommended_practices |-> <<"crop_rotation", "minimum_tillage">>]
      [] f = "prices" ->
            [Wheat |-> [price |-> 250, unit |-> "euro/tonne"],
             Barley |-> [price |-> 220, unit |-> "euro/tonne"]]
      [] f = "weather" ->
            [temp |-> "None", humidity |-> "None", error |-> ExceptionText(e)]

\* what each fetcher's except clause catches: a bare except catches
\* everything, "except Exception" every exception raised here
\* an except clause that names the connection error only
Catches_ConnectionOnly(f, e) == e = "ConnectionError"

Catches(f, e) ==
    IF f = "weather" THEN e \in {"ConnectionError", "JSONDecodeError"} ELSE TRUE

\* the try block of a fetcher, entered after a cache miss: requests.get,
\* a try block of get_market_prices that stores under another key than the
\* one the validity check looks up
TryBlock_PricesOtherKey(f, p, out, c, now) ==
    IF out.raised
    THEN [raised |-> TRUE, exc |-> out.exc, value |-> Null, cache |-> c]
    ELSE LET j == response_json(out)
             k == IF f = "prices" THEN "market_prices" ELSE Key(f, p)
         IN  IF j.raised
             THEN [raised |-> TRUE, exc |-> j.exc, value |-> Null, cache |-> c]
             ELSE [raised |-> FALSE, exc |-> "", value |-> j.value,
                   cache |-> _cache_data(c, now, k, j.value)]

\* response.json, _cache_data, return data
TryBlock(f, p, out, c, now) ==
    IF out.raised
    THEN [raised |-> TRUE, exc |-> out.exc, value |-> Null, cache |-> c]
    ELSE LET j == response_json(out)
         IN  IF j.raised
             THEN [raised |-> TRUE, exc |-> j.exc, value |-> Null, cache |-> c]
             ELSE [raised |-> FALSE, exc |-> "", value |-> j.value,
                   cache |-> _cache_data(c, now, Key(f, p), j.value)]

\* try/except with the fallback payload written to the cache
TryExcept_CachesFallback(f, p, out, c, now) ==
    LET r == TryBlock(f, p, out, c, now)
    IN  IF ~r.raised
        THEN [kind |-> "fetched", payload |-> r.value, cache |-> r.cache]
        ELSE [kind |-> "fallback", payload |-> Fallback(f, r.exc),
              cache |-> _cache_data(r.cache, now, Key(f, p), Fallback(f, r.exc))]

\* try/except with the cache emptied when the upstream call fails
TryExcept_ClearsCache(f, p, out, c, now) ==
    LET r == TryBlock(f, p, out, c, now)
    IN  IF ~r.raised
        THEN [kind |-> "fetched", payload |-> r.value, cache |-> r.cache]
        ELSE [kind |-> "fallback", payload |-> Fallback(f, r.exc), cache |-> EmptyDict]

\* try/except that serves the cached payload, however old, when the upstream
\* call fails
TryExcept_ServesStale(f, p, out, c, now) ==
    LET r == TryBlock(f, p, out, c, now)
    IN  IF ~r.raised
        THEN [kind |-> "fetched", payload |-> r.value, cache |-> r.cache]
        ELSE IF HasKey(c, Key(f, p))
             THEN [kind |-> "fallback", payload |-> c[Key(f, p)].data, cache |-> r.cache]
             ELSE [kind |-> "fallback", payload |-> Fallback(f, r.exc), cache |-> r.cache]

\* try/except of a fetcher: how the call ends, with which payload, and the
\* cache it leaves
TryExcept(f, p, out, c, now) ==
    LET r == TryBlock(f, p, out, c, now)
    IN  IF ~r.raised
        THEN [kind |-> "fetched", payload |-> r.value, cache |-> r.cache]
        ELSE IF Catches(f, r.exc)
             THEN [kind |-> "fallback", payload |-> Fallback(f, r.exc), cache |-> r.cache]
             ELSE [kind |-> "raised", payload |-> Null, cache |-> r.cache]

----------------------------------------------------------------------------
(* Fetcher calls *)

\* the script thread, and a second thread given the same service
Threads == {"main", "worker"}

NoCall ==
    [pc |-> "idle", fetcher |-> "", params |-> <<>>, key |-> "", requests |-> 0,
     checkedAt |-> 0, outcome |-> NoOutcome, kind |-> "", payload |-> Null,
     entry |-> Null]

\* what the history keeps of a call that has ended
Ended(c) ==
    [fetcher |-> c.fetcher, params |-> c.params, key |-> c.key, kind |-> c.kind,
     payload |-> c.payload]

NoneEnded == Ended(NoCall)

\* a fetcher whose hit path stamps the entry with the time of the read
FetcherEnter_TouchesEntry(t, f, p) ==
    LET key == Key(f, p)
        c0  == [NoCall EXCEPT !.fetcher = f, !.params = p, !.key = key,
                              !.checkedAt = clock]
    IN  /\ calls[t].pc # "awaiting"
        /\ IF _is_cache_valid(cache, clock, key)
           THEN /\ calls' = [calls EXCEPT ![t] =
                        [c0 EXCEPT !.pc = "returned", !.kind = "hit",
                                   !.payload = cache[key].data]]
                /\ cache' = [cache EXCEPT ![key].timestamp = clock]
           ELSE /\ calls' = [calls EXCEPT ![t] =
                        [c0 EXCEPT !.pc = "awaiting", !.requests = 1]]
                /\ cache' = cache
        /\ prev' = IF calls[t].pc = "idle" THEN prev ELSE Ended(calls[t])
        /\ UNCHANGED fetched

\* a fetcher is entered: the validity check, then either the cached payload
\* is returned or requests.get is issued
FetcherEnter(t, f, p) ==
    LET key == Key(f, p)
        c0  == [NoCall EXCEPT !.fetcher = f, !.params = p, !.key = key,
                              !.checkedAt = clock]
    IN  /\ calls[t].pc # "awaiting"
        /\ IF _is_cache_valid(cache, clock, key)
           THEN calls' = [calls EXCEPT ![t] =
                    [c0 EXCEPT !.pc = "returned", !.kind = "hit",
                               !.payload = cache[key].data]]
           ELSE calls' = [calls EXCEPT ![t] =
                    [c0 EXCEPT !.pc = "awaiting", !.requests = 1]]
        /\ prev' = IF calls[t].pc = "idle" THEN prev ELSE Ended(calls[t])
        /\ UNCHANGED <<cache, fetched>>

\* a fetcher that sends the request a second time when the first one failed
FetcherResume_Retries(t, out) ==
    LET c == calls[t]
        r == TryExcept(c.fetcher, c.params, out, cache, clock)
    IN  /\ c.pc = "awaiting"
        /\ out \in UpstreamOutcomes(c.fetcher)
        /\ cache' = r.cache
        /\ calls' = [calls EXCEPT ![t] =
                IF r.kind # "fetched" /\ c.requests = 1
                THEN [c EXCEPT !.requests = 2]
                ELSE [c EXCEPT !.pc = IF r.kind = "raised" THEN "raised" ELSE "returned",
                               !.outcome = out, !.kind = r.kind, !.payload = r.payload]]
        /\ fetched' = IF r.kind = "fetched"
                      THEN DictSet(fetched, c.key, [data |-> r.payload, at |-> clock,
                                                fetcher |-> c.fetcher, params |-> c.params])
                      ELSE fetched
        /\ UNCHANGED prev

\* requests.get returns or raises and the fetcher runs to its return
FetcherResume(t, out) ==
    LET c == calls[t]
        r == TryExcept(c.fetcher, c.params, out, cache, clock)
    IN  /\ c.pc = "awaiting"
        /\ out \in UpstreamOutcomes(c.fetcher)
        /\ cache' = r.cache
        /\ calls' = [calls EXCEPT ![t] =
                [c EXCEPT !.pc = IF r.kind = "raised" THEN "raised" ELSE "returned",
                          !.outcome = out, !.kind = r.kind, !.payload = r.payload]]
        /\ fetched' = IF r.kind = "fetched"
                      THEN DictSet(fetched, c.key, [data |-> r.payload, at |-> clock,
                                                fetcher |-> c.fetcher, params |-> c.params])
                      ELSE fetched
        /\ UNCHANGED prev

----------------------------------------------------------------------------
(* One service instance driven by an arbitrary caller *)

NoHandler ==
    [pc |-> "none", page |-> "", subject |-> "", button |-> "", coords |-> <<>>,
     pending |-> <<>>, bundle |-> EmptyDict, exc |-> "", consumed |-> FALSE]

Init ==
    /\ cache = EmptyDict
    /\ clock = 0
    /\ calls = [t \in Threads |-> NoCall]
    /\ prev = NoneEnded
    /\ fetched = EmptyDict
    /\ handler = NoHandler
    /\ ncalls = 0
    /\ nclicks = 0

Call(f, p) ==
    /\ ncalls < MaxCalls
    /\ FetcherEnter("main", f, p)
    /\ ncalls' = ncalls + 1
    /\ UNCHANGED <<clock, handler, nclicks>>

UpstreamAnswers(out) ==
    /\ FetcherResume("main", out)
    /\ UNCHANGED <<clock, handler, ncalls, nclicks>>

Tick(d) ==
    /\ clock + d <= MaxClock
    /\ clock' = clock + d
    /\ UNCHANGED <<cache, calls, prev, fetched, handler, ncalls, nclicks>>

Next ==
    \/ \E f \in Fetchers : \E p \in Params(f) : Call(f, p)
    \/ \E f \in Fetchers : \E out \in UpstreamOutcomes(f) : UpstreamAnswers(out)
    \/ \E d \in ClockSteps : Tick(d)

Spec == Init /\ [][Next]_vars

----------------------------------------------------------------------------
(* One service instance called from two threads.  A thread is preempted   *)
(* between bytecodes: between the validity check and the read of the      *)
(* entry, around the upstream call, between the evaluation of the entry's *)
(* dictionary display (which reads datetime.now()) and its store.         *)

\* self.cache[key] = entry: one store into the dictionary
StoreSubscr_InPlace(c, key, entry) ==
    IF HasKey(c, key) THEN [c EXCEPT ![key].data = entry.data]
    ELSE DictSet(c, key, entry)

StoreSubscr(c, key, entry) == DictSet(c, key, entry)

\* if self._is_cache_valid(key):
CheckCache(t, f, p) ==
    LET key == Key(f, p)
        c0  == [NoCall EXCEPT !.fetcher = f, !.params = p, !.key = key,
                              !.checkedAt = clock]
    IN  /\ ncalls < MaxConcCalls
        /\ calls[t].pc \in {"idle", "returned", "raised"}
        /\ ncalls' = ncalls + 1
        /\ calls' = [calls EXCEPT ![t] =
                IF _is_cache_valid(cache, clock, key)
                THEN [c0 EXCEPT !.pc = "valid"]
                ELSE [c0 EXCEPT !.pc = "awaiting", !.requests = 1]]
        /\ UNCHANGED <<cache, clock, prev, fetched, handler, nclicks>>

\* return self.cache[key]["data"]
ReadEntry(t) ==
    LET c == calls[t]
    IN  /\ c.pc = "valid"
        /\ calls' = [calls EXCEPT ![t] =
                IF HasKey(cache, c.key)
                THEN [c EXCEPT !.pc = "returned", !.kind = "hit",
                               !.entry = cache[c.key],
                               !.payload = cache[c.key].data]
                ELSE [c EXCEPT !.pc = "raised", !.kind = "raised",
                               !.outcome = Raises("KeyError")]]
        /\ UNCHANGED <<cache, clock, prev, fetched, handler, ncalls, nclicks>>

\* an except clause that drops the key's entry when the upstream call failed
Receive_EvictsOnFailure(t, out) ==
    LET c == calls[t]
        r == TryExcept(c.fetcher, c.params, out, cache, clock)
    IN  /\ c.pc = "awaiting"
        /\ out \in UpstreamOutcomes(c.fetcher)
        /\ calls' = [calls EXCEPT ![t] =
                IF r.kind = "fetched"
                THEN [c EXCEPT !.pc = "parsed", !.outcome = out, !.payload = r.payload]
                ELSE [c EXCEPT !.pc = IF r.kind = "raised" THEN "raised" ELSE "returned",
                               !.outcome = out, !.kind = r.kind, !.payload = r.payload]]
        /\ cache' = IF r.kind = "fetched" THEN cache
                    ELSE [k \in DOMAIN cache \ {c.key} |-> cache[k]]
        /\ UNCHANGED <<clock, prev, fetched, handler, ncalls, nclicks>>

\* requests.get returns or raises, response.json(); the except clause when
\* one of them raised
Receive(t, out) ==
    LET c == calls[t]
        r == TryExcept(c.fetcher, c.params, out, cache, clock)
    IN  /\ c.pc = "awaiting"
        /\ out \in UpstreamOutcomes(c.fetcher)
        /\ calls' = [calls EXCEPT ![t] =
                IF r.kind = "fetched"
                THEN [c EXCEPT !.pc = "parsed", !.outcome = out, !.payload = r.payload]
                ELSE [c EXCEPT !.pc = IF r.kind = "raised" THEN "raised" ELSE "returned",
                               !.outcome = out, !.kind = r.kind, !.payload = r.payload]]
        /\ UNCHANGED <<cache, clock, prev, fetched, handler, ncalls, nclicks>>

\* {"timestamp": datetime.now(), "data": data} is evaluated
BuildEntry(t) ==
    LET c == calls[t]
    IN  /\ c.pc = "parsed"
        /\ calls' = [calls EXCEPT ![t] =
                [c EXCEPT !.pc = "built",
                          !.entry = _cache_data(EmptyDict, clock, c.key, c.payload)[c.key]]]
        /\ UNCHANGED <<cache, clock, prev, fetched, handler, ncalls, nclicks>>

\* the entry is stored and the fetcher returns data
StoreEntry(t) ==
    LET c == calls[t]
    IN  /\ c.pc = "built"
        /\ cache' = StoreSubscr(cache, c.key, c.entry)
        /\ fetched' = DictSet(fetched, c.key,
                            [data |-> c.entry.data, at |-> c.entry.timestamp,
                             fetcher |-> c.fetcher, params |-> c.params])
        /\ calls' = [calls EXCEPT ![t] = [c EXCEPT !.pc = "returned", !.kind = "fetched"]]
        /\ UNCHANGED <<clock, prev, handler, ncalls, nclicks>>

\* the fetcher the two threads call: get_market_prices, whose key every
\* caller shares
ConcFetchers == {"prices"}

ConcNext ==
    \/ \E t \in Threads : \E f \in ConcFetchers : \E p \in Params(f) : CheckCache(t, f, p)
    \/ \E t \in Threads : ReadEntry(t)
    \/ \E t \in Threads : \E f \in ConcFetchers : \E out \in UpstreamOutcomes(f) : Receive(t, out)
    \/ \E t \in Threads : BuildEntry(t)
    \/ \E t \in Threads : StoreEntry(t)
    \/ \E d \in ClockSteps : Tick(d)

ConcSpec == Init /\ [][ConcNext]_vars

----------------------------------------------------------------------------
(* The Streamlit pages: main() and land_management_page() *)

Buttons == {"sustainability", "market", "climate", "comprehensive"}

\* rows of the lands table (Land.name, Land.coordinates): a drawn polygon
\* saved as a GeoJSON feature, a row without geometry, a row whose geometry
\* has no coordinates
Lands ==
    {[name |-> "North Field",
      coordinates |-> [geometry |-> [coordinates |->
            << << <<112486, 437711>>, <<112586, 437711>>, <<112586, 437811>>,
                  <<112486, 437711>> >> >>]]],
     [name |-> "Old Orchard", coordinates |-> EmptyDict],
     [name |-> "Marsh", coordinates |-> [geometry |-> [coordinates |-> <<>>]]]}

Value(v) == [raised |-> FALSE, exc |-> "", value |-> v]
Raise(e) == [raised |-> TRUE, exc |-> e, value |-> Null]

\* coords = land.coordinates.get('geometry', {}).get('coordinates', [[[]]])[0][0]
LandCoords(land) ==
    LET geometry == DictGet(land.coordinates, "geometry", EmptyDict)
        rings    == DictGet(geometry, "coordinates", << << <<>> >> >>)
    IN  IF Len(rings) = 0 THEN Raise("IndexError")
        ELSE IF Len(rings[1]) = 0 THEN Raise("IndexError")
        ELSE Value(rings[1][1])

\* the fetcher calls of each button's handler, in program order, with the
\* argument expressions of each call
Plan(button) ==
    CASE button = "sustainability" ->
            <<[fetcher |-> "fsdn", args |-> "name"], [fetcher |-> "fast", args |-> "name"]>>
      [] button = "market" ->
            <<[fetcher |-> "prices", args |-> "none"]>>
      [] button = "climate" ->
            <<[fetcher |-> "weather", args |-> "coordinates"]>>
      [] button = "comprehensive" ->
            <<[fetcher |-> "fsdn", args |-> "name"], [fetcher |-> "prices", args |-> "none"],
              [fetcher |-> "weather", args |-> "coordinates"]>>

\* the sources a button's handler asks for
Requested(button) == {Plan(button)[i].fetcher : i \in 1..Len(Plan(button))}

\* what the pages and get_recommendations show of the sustainability payload:
\* sustainability_data.get('soil_health', 'Unknown') and its two neighbours
SustainabilityMetrics(data) ==
    [soil_health      |-> DictGet(data, "soil_health", "Unknown"),
     water_efficiency |-> DictGet(data, "water_efficiency", "Unknown"),
     biodiversity     |-> DictGet(data, "biodiversity", "Unknown")]

\* evaluation of a call's arguments: region_name / land.name, nothing,
\* region_data["coordinates"][0], [1] on the home page and coords[1],
\* coords[0] on the land page
EvalArgs(h, item) ==
    CASE item.args = "name" -> Value(<<h.subject>>)
      [] item.args = "none" -> Value(<<>>)
      [] item.args = "coordinates" ->
            IF h.page = "home" THEN Value(<<h.coords[1], h.coords[2]>>)
            ELSE IF Len(h.coords) < 2 THEN Raise("IndexError")
            ELSE Value(<<h.coords[2], h.coords[1]>>)

\* agri_service = EuropeanAgriDataService(): every handler run starts with a
\* service of its own
NewService ==
    /\ cache' = EmptyDict
    /\ fetched' = EmptyDict
    /\ calls' = [t \in Threads |-> NoCall]
    /\ prev' = NoneEnded

\* a button of the home page is clicked for the selected region
ClickHome(region, button) ==
    /\ handler.pc # "running"
    /\ nclicks < MaxClicks
    /\ nclicks' = nclicks + 1
    /\ NewService
    /\ handler' = [NoHandler EXCEPT !.pc = "running", !.page = "home",
                                    !.subject = region, !.button = button,
                                    !.coords = RegionCoordinates[region],
                                    !.pending = Plan(button)]
    /\ UNCHANGED <<clock, ncalls>>

\* a button in a land's expander is clicked: the rerun creates the land's
\* service and evaluates coords; when that raises the page stops before the
\* button's block ("crashed"), otherwise the button's block is entered
ClickLand(land, button) ==
    LET c == LandCoords(land)
        h == [NoHandler EXCEPT !.page = "land", !.subject = land.name,
                               !.button = button]
    IN  /\ handler.pc # "running"
        /\ nclicks < MaxClicks
        /\ nclicks' = nclicks + 1
        /\ NewService
        /\ handler' = IF c.raised
                      THEN [h EXCEPT !.pc = "crashed", !.exc = c.exc]
                      ELSE [h EXCEPT !.pc = "running", !.coords = c.value,
                                     !.pending = Plan(button)]
        /\ UNCHANGED <<clock, ncalls>>

\* asyncio.run(agri_service.get_...(...)): the next call of the handler is made
Dispatch ==
    /\ handler.pc = "running"
    /\ handler.pending # <<>>
    /\ calls["main"].pc = "idle"
    /\ LET item == Head(handler.pending)
           a    == EvalArgs(handler, item)
       IN  IF a.raised
           THEN /\ handler' = [handler EXCEPT !.pc = "raised", !.exc = a.exc]
                /\ UNCHANGED <<cache, calls, prev, fetched>>
           ELSE /\ FetcherEnter("main", item.fetcher, a.value)
                /\ UNCHANGED handler
    /\ UNCHANGED <<clock, ncalls, nclicks>>

\* the call has returned and its payload is assigned to the handler's variable
Collect ==
    LET c == calls["main"]
    IN  /\ handler.pc = "running"
        /\ c.pc \in {"returned", "raised"}
        /\ handler' =
              IF c.pc = "raised"
              THEN [handler EXCEPT !.pc = "raised", !.exc = c.outcome.exc]
              ELSE [handler EXCEPT
                      !.pending = Tail(handler.pending),
                      !.bundle = DictSet(handler.bundle, c.fetcher,
                                    [key |-> c.key, kind |-> c.kind,
                                     payload |-> c.payload, outcome |-> c.outcome])]
        /\ calls' = [calls EXCEPT !["main"] = NoCall]
        /\ prev' = Ended(c)
        /\ UNCHANGED <<cache, clock, fetched, ncalls, nclicks>>

\* a handler that goes on to get_recommendations while calls are still to
\* be made
Finish_Early ==
    /\ handler.pc = "running"
    /\ calls["main"].pc = "idle"
    /\ handler' = [handler EXCEPT !.pc = "done",
                                  !.consumed = (handler.button = "comprehensive")]
    /\ UNCHANGED <<cache, clock, calls, prev, fetched, ncalls, nclicks>>

\* every call of the handler has returned: the payloads are rendered, and the
\* comprehensive analysis passes them to get_recommendations
Finish ==
    /\ handler.pc = "running"
    /\ handler.pending = <<>>
    /\ calls["main"].pc = "idle"
    /\ handler' = [handler EXCEPT !.pc = "done",
                                  !.consumed = (handler.button = "comprehensive")]
    /\ UNCHANGED <<cache, clock, calls, prev, fetched, ncalls, nclicks>>

AppNext ==
    \/ \E r \in Regions : \E b \in Buttons : ClickHome(r, b)
    \/ \E l \in Lands : \E b \in Buttons : ClickLand(l, b)
    \/ Dispatch
    \/ \E f \in Fetchers : \E out \in UpstreamOutcomes(f) : UpstreamAnswers(out)
    \/ Collect
    \/ Finish
    \/ \E d \in ClockSteps : Tick(d)

AppSpec == Init /\ [][AppNext]_vars

\* the script thread runs whenever it can; the user and the upstream are
\* under no obligation (requests.get is passed no timeout, so nothing on the
\* program's side ends a wait for the upstream)
FairAppSpec == AppSpec /\ WF_vars(Dispatch \/ Collect \/ Finish)

----------------------------------------------------------------------------
(* Properties *)

\* a parsed body has the shape expected of the source
ExpectedShape(f, data) == data \in {ParseJson(b) : b \in GoodDocs(f)}

\* the exception a failed call's except clause was entered with
FailureOf(out) == IF out.raised THEN out.exc ELSE "JSONDecodeError"

\* the cache holds an entry under k that is valid at time now
EntryValidAt(k, now) == HasKey(cache, k) /\ now - cache[k].timestamp < cache_duration

\* the call c wrote the entry under its key
WroteEntry(c) == HasKey(cache, c.key) /\ cache[c.key].timestamp >= c.checkedAt

(* C1: a call that ends with the fallback payload leaves no valid entry    *)
(* under its key and has written nothing under it, and the call that       *)
(* immediately follows it for the same key is not a cache hit: it sends    *)
(* the upstream request again.                                             *)
C1_NonCachingOfFailures ==
    \A t \in Threads :
        LET c == calls[t]
        IN  /\ (c.pc = "returned" /\ c.kind = "fallback")
                  => (~EntryValidAt(c.key, clock) /\ ~WroteEntry(c))
            /\ (prev.kind = "fallback" /\ c.pc # "idle" /\ c.key = prev.key)
                  => (c.kind # "hit" /\ c.requests = 1)

C1_Witness ==
    /\ prev.kind = "fallback"
    /\ calls["main"].pc = "awaiting"
    /\ calls["main"].key = prev.key

(* C2: a call whose upstream answered with a non-success status ends with  *)
(* the fallback payload and has created no cache entry, whatever the body. *)
C2_HttpErrorFallsBack ==
    \A t \in Threads :
        LET c == calls[t]
        IN  (c.pc = "returned" /\ c.requests = 1 /\ ~c.outcome.raised
                /\ c.outcome.status_code # 200)
                  => (c.kind = "fallback" /\ ~WroteEntry(c))

(* C3: a call with the same fetcher and parameters as the call before it,  *)
(* which fetched successfully, made less than 24 hours after that fetch,   *)
(* is a cache hit: it never waits for the upstream, it sends no request    *)
(* and it returns the payload of the call before it.                       *)
C3_CacheIdempotence ==
    \A t \in Threads :
        LET c == calls[t]
        IN  (/\ c.pc # "idle"
             /\ prev.kind = "fetched"
             /\ c.fetcher = prev.fetcher
             /\ c.params = prev.params)
                  => /\ c.pc = "awaiting" =>
                            (/\ HasKey(fetched, prev.key)
                             /\ c.checkedAt - fetched[prev.key].at >= cache_duration)
                     /\ c.kind = "hit" =>
                            (/\ c.pc = "returned"
                             /\ c.payload = prev.payload
                             /\ c.requests = 0)

C3_Witness ==
    LET c == calls["main"]
    IN  /\ prev.kind = "fetched"
        /\ c.fetcher = prev.fetcher
        /\ c.params = prev.params
        /\ c.kind = "hit"
        /\ c.checkedAt > fetched[c.key].at

(* C4: a call is a cache hit exactly when a payload was fetched for its    *)
(* key less than 24 hours before the call's validity check; at an age of   *)
(* 24 hours or more the call goes to the upstream and ends as fetched or   *)
(* fallback.                                                               *)
C4_CacheExpiry ==
    \A t \in Threads :
        LET c == calls[t]
            fresh == /\ HasKey(fetched, c.key)
                     /\ c.checkedAt - fetched[c.key].at < cache_duration
        IN  /\ c.kind = "hit" => fresh
            /\ c.pc = "awaiting" => (~fresh /\ c.requests = 1)
            /\ (c.pc = "returned" /\ c.kind # "hit")
                  => (c.requests = 1 /\ c.kind \in {"fetched", "fallback"})

C4_Witness ==
    LET c == calls["main"]
    IN  /\ c.pc = "awaiting"
        /\ HasKey(fetched, c.key)
        /\ c.checkedAt - fetched[c.key].at = cache_duration

(* C5: a button's block never raises, whatever the land's stored           *)
(* coordinates, and ends with exactly one payload for each source it asked *)
(* for.                                                                    *)
C5_AggregationNeverThrows ==
    /\ handler.pc # "raised"
    /\ handler.pc = "done" => DOMAIN handler.bundle = Requested(handler.button)

C7_FallbackIsolation ==
    LET b == handler.bundle
        c == calls["main"]
    IN  /\ \A s \in DOMAIN b :
              IF b[s].kind = "fetched"
              THEN /\ IsJson(b[s].outcome.text)
                   /\ b[s].payload = ParseJson(b[s].outcome.text)
                   /\ HasKey(cache, b[s].key)
                   /\ cache[b[s].key].data = b[s].payload
              ELSE /\ b[s].kind = "fallback"
                   /\ b[s].payload = Fallback(s, FailureOf(b[s].outcome))
                   /\ ~HasKey(cache, b[s].key)
        /\ \A k \in DOMAIN cache :
              \/ \E s \in DOMAIN b : b[s].key = k /\ b[s].kind = "fetched"
              \/ c.pc = "returned" /\ c.kind = "fetched" /\ c.key = k

C7_Witness ==
    /\ handler.pc = "done"
    /\ \E s1, s2 \in DOMAIN handler.bundle :
          /\ handler.bundle[s1].kind = "fallback"
          /\ handler.bundle[s2].kind = "fetched"

(* C8: a call whose upstream body parses but has not the shape expected of *)
(* the source ends with the fallback payload and does not cache the body.  *)
C8_MalformedFallsBack ==
    \A t \in Threads :
        LET c == calls[t]
        IN  (/\ c.pc = "returned"
             /\ c.requests = 1
             /\ ~c.outcome.raised
             /\ IsJson(c.outcome.text)
             /\ ~ExpectedShape(c.fetcher, ParseJson(c.outcome.text)))
                  => (c.kind = "fallback" /\ ~WroteEntry(c))

(* C9: every fetcher call that waits for the upstream eventually returns,  *)
(* also when the upstream never answers.                                   *)
C9_EveryCallReturns ==
    (calls["main"].pc = "awaiting") ~> (calls["main"].pc # "awaiting")

(* C10: an entry of the cache is never lost while the process runs: a key  *)
(* that is cached stays cached over every step.                            *)
C10_CacheLivesForProcess ==
    [][\A k \in DOMAIN cache : HasKey(cache', k)]_vars

(* C11: when the sustainability fetcher fell back, the metrics the handler *)
(* reads from its payload are soil_health "medium", water_efficiency       *)
(* "high" and biodiversity "medium".                                       *)
C11_FallbackTopLevelFields ==
    (handler.pc = "done" /\ HasKey(handler.bundle, "fsdn")
        /\ handler.bundle["fsdn"].kind = "fallback")
    => SustainabilityMetrics(handler.bundle["fsdn"].payload)
         = [soil_health |-> "medium", water_efficiency |-> "high",
            biodiversity |-> "medium"]

\* two (lat, lon) pairs of one cell of the 0.01 degree grid
SameCell(p, q) == \A i \in 1..2 : (p[i] + 50) \div 100 = (q[i] + 50) \div 100

(* C12: two weather requests whose coordinates differ but lie in the same  *)
(* quantization cell use the same cache key, so the second of them, made   *)
(* while the first one's entry is valid, sends no request to the upstream. *)
C12_WeatherKeyQuantized ==
    \A t \in Threads :
        LET c == calls[t]
        IN  (c.fetcher = "weather" /\ c.pc # "idle"
                /\ prev.fetcher = "weather" /\ prev.kind = "fetched"
                /\ c.params # prev.params /\ SameCell(c.params, prev.params))
            => /\ c.key = prev.key
               /\ c.pc = "awaiting" => c.checkedAt - fetched[prev.key].at >= cache_duration

(* C13: a call that missed and got a parseable answer returns exactly the  *)
(* upstream's payload, and the cache holds under the call's key an entry   *)
(* with that payload, stamped with the time of the write (which is not     *)
(* before the upstream call was made) and valid at that time.              *)
C13_MissStoresPayload ==
    \A t \in Threads :
        LET c == calls[t]
        IN  (c.pc = "returned" /\ c.kind = "fetched")
            => /\ c.payload = ParseJson(c.outcome.text)
               /\ HasKey(cache, c.key)
               /\ cache[c.key].data = c.payload
               /\ cache[c.key].timestamp = fetched[c.key].at
               /\ cache[c.key].timestamp >= c.checkedAt
               /\ _is_cache_valid(cache, fetched[c.key].at, c.key)

\* the upstream answered 12 hours after the call checked the cache, and the
\* entry carries the time of the answer
C13_Witness ==
    \E t \in Threads :
        LET c == calls[t]
        IN  /\ c.pc = "returned" /\ c.kind = "fetched"
            /\ c.outcome.status_code = 200
            /\ HasKey(cache, c.key)
            /\ cache[c.key].data = c.payload
            /\ cache[c.key].timestamp > c.checkedAt
            /\ clock = cache[c.key].timestamp

(* C14: when a call finds an expired entry and the upstream call fails,    *)
(* the call returns the fallback payload and not the expired one, and the  *)
(* expired entry stays in the cache with the payload and timestamp of the  *)
(* successful fetch that wrote it.                                         *)
C14_ExpiredEntryAndFailure ==
    \A t \in Threads :
        LET c == calls[t]
        IN  (c.pc = "returned" /\ c.kind = "fallback" /\ HasKey(fetched, c.key))
            => /\ c.payload = Fallback(c.fetcher, FailureOf(c.outcome))
               /\ HasKey(cache, c.key)
               /\ c.payload # cache[c.key].data
               /\ cache[c.key] = [timestamp |-> fetched[c.key].at,
                                  data |-> fetched[c.key].data]
               /\ cache[c.key].timestamp < c.checkedAt

\* a fetch wrote the entry, a day passed, and the next call for the key
\* failed at the upstream
C14_Witness ==
    \E t \in Threads :
        LET c == calls[t]
        IN  /\ c.pc = "returned" /\ c.kind = "fallback"
            /\ prev.kind = "fetched" /\ prev.key = c.key
            /\ HasKey(cache, c.key)
            /\ cache[c.key].data = prev.payload
            /\ c.checkedAt - cache[c.key].timestamp >= cache_duration

(* C15: a fetcher call sends at most one request to the upstream: none     *)
(* when it found a valid entry, exactly one when the entry was absent or   *)
(* expired, and a call whose request failed ends with the fallback after   *)
(* that one request.                                                       *)
C15_SingleAttempt ==
    \A t \in Threads :
        LET c == calls[t]
        IN  c.pc # "idle"
            => /\ c.requests \in {0, 1}
               /\ c.requests = 0 <=> c.kind = "hit"
               /\ c.kind = "hit" =>
                     /\ HasKey(fetched, c.key)
                     /\ c.checkedAt - fetched[c.key].at < cache_duration
               /\ c.pc = "awaiting" =>
                     \/ ~HasKey(fetched, c.key)
                     \/ c.checkedAt - fetched[c.key].at >= cache_duration
               /\ c.kind = "fallback" => c.pc = "returned" /\ c.requests = 1

\* the entry had expired, one request was sent, it raised, and the call has
\* ended with the fallback
C15_Witness ==
    \E t \in Threads :
        LET c == calls[t]
        IN  /\ c.pc = "returned" /\ c.kind = "fallback"
            /\ c.outcome.raised
            /\ c.requests = 1
            /\ HasKey(cache, c.key)

(* C16: when two threads fetch the same key on one service, under every    *)
(* interleaving each call that fetched returns the payload of its own      *)
(* upstream answer, and the entry of the key is, as a whole, the entry     *)
(* the last writer built: its payload with its timestamp.                  *)
C16_ConcurrentFetchesSafe ==
    /\ \A t \in Threads :
          LET c == calls[t]
          IN  (c.pc = "returned" /\ c.kind = "fetched")
              => /\ c.payload = ParseJson(c.outcome.text)
                 /\ c.entry = [timestamp |-> c.entry.timestamp, data |-> c.payload]
                 /\ HasKey(cache, c.key)
    /\ DOMAIN cache = DOMAIN fetched
    /\ \A k \in DOMAIN cache :
          cache[k] = [timestamp |-> fetched[k].at, data |-> fetched[k].data]

\* both threads missed and fetched different payloads for the key; the one
\* that built its entry first stored it last, so the entry left in the cache
\* is the older of the two
C16_Witness ==
    LET m == calls["main"]
        w == calls["worker"]
    IN  /\ m.pc = "returned" /\ m.kind = "fetched"
        /\ w.pc = "returned" /\ w.kind = "fetched"
        /\ m.key = w.key
        /\ m.checkedAt = w.checkedAt
        /\ m.payload # w.payload
        /\ m.entry.timestamp < w.entry.timestamp
        /\ cache[m.key] = m.entry

(* C17: a cache key belongs to one (fetcher, arguments) pair: two calls    *)
(* with the same key are calls of the same fetcher with the same           *)
(* arguments, and a hit returns a payload that was fetched by that fetcher *)
(* for those arguments.                                                    *)
C17_KeyOwnership ==
    \A t \in Threads :
        LET c == calls[t]
        IN  /\ (c.pc # "idle" /\ prev.kind # "" /\ c.key = prev.key)
                => (c.fetcher = prev.fetcher /\ c.params = prev.params)
            /\ c.kind = "hit"
                => /\ fetched[c.key].fetcher = c.fetcher
                   /\ fetched[c.key].params = c.params
                   /\ c.payload = fetched[c.key].data

\* two fetchers were called for the same region and each has its own entry
C17_Witness ==
    \E t \in Threads :
        LET c == calls[t]
        IN  /\ c.pc = "returned" /\ c.kind = "fetched"
            /\ prev.kind = "fetched"
            /\ prev.fetcher # c.fetcher
            /\ prev.params = c.params
            /\ DOMAIN cache = {prev.key, c.key}
            /\ cache[prev.key].data = prev.payload
            /\ cache[c.key].data = c.payload
            /\ prev.payload # c.payload

(* C18: get_market_prices uses the one key "prices", whoever asks: once    *)
(* prices were fetched on a service, every call for prices on that service *)
(* checked within 24 hours of the fetch (other than the fetching call      *)
(* itself) is a hit that returns them and sends no request.                *)
C18_PricesGlobalKey ==
    \A t \in Threads :
        LET c == calls[t]
        IN  (c.fetcher = "prices" /\ c.pc # "idle")
            => /\ c.key = "prices"
               /\ (c.kind # "fetched" /\ HasKey(fetched, "prices")
                      /\ fetched["prices"].at <= c.checkedAt
                      /\ c.checkedAt - fetched["prices"].at < cache_duration)
                  => /\ c.pc = "returned" /\ c.kind = "hit"
                     /\ c.requests = 0
                     /\ c.payload = fetched["prices"].data

\* prices were fetched, and asked for again 12 hours later
C18_Witness ==
    \E t \in Threads :
        LET c == calls[t]
        IN  /\ c.fetcher = "prices" /\ c.kind = "hit"
            /\ prev.fetcher = "prices" /\ prev.kind = "fetched"
            /\ c.payload = prev.payload
            /\ c.checkedAt > fetched["prices"].at
            /\ DOMAIN cache = {"prices"}

(* C19: get_recommendations is called only when every fetcher call of the  *)
(* comprehensive analysis has returned: the handler then holds a payload   *)
(* of each of the three sources and no call is in progress.                *)
C19_NoPartialBundle ==
    handler.consumed
    => /\ handler.button = "comprehensive"
       /\ DOMAIN handler.bundle = Requested(handler.button)
       /\ \A f \in DOMAIN handler.bundle :
             /\ handler.bundle[f].kind \in {"hit", "fetched", "fallback"}
             /\ handler.bundle[f].payload # Null
       /\ handler.pending = <<>>
       /\ \A t \in Threads : calls[t].pc = "idle"

\* get_recommendations was called with a fallback payload among fetched ones
C19_Witness ==
    /\ handler.consumed
    /\ DOMAIN handler.bundle = {"fsdn", "prices", "weather"}
    /\ handler.bundle["fsdn"].kind = "fetched"
    /\ handler.bundle["prices"].kind = "fallback"
    /\ handler.bundle["weather"].kind = "fetched"

(* C20: the fetcher calls of one handler run concurrently: while an        *)
(* earlier source's call is waiting for the upstream and a later source is *)
(* still to be fetched, the handler can make its next call.                *)
C20_FetchesDispatchedConcurrently ==
    (handler.pc = "running" /\ Len(handler.pending) >= 2
        /\ calls["main"].pc = "awaiting")
    => ENABLED Dispatch

(* C21: the write of a fetched payload replaces the key's entry as a whole *)
(* with one made of that payload and the current time, whether or not the  *)
(* key had an entry, and leaves the entry of every other key as it was.    *)
C21_PutOverwritesWholesale ==
    [][\A t \in Threads :
          (calls[t].pc = "awaiting" /\ calls'[t].kind = "fetched")
          => /\ DOMAIN cache' = DOMAIN cache \cup {calls[t].key}
             /\ DOMAIN cache'[calls[t].key] = {"timestamp", "data"}
             /\ cache'[calls[t].key].data = calls'[t].payload
             /\ cache'[calls[t].key].timestamp = clock
             /\ \A k \in DOMAIN cache \ {calls[t].key} : cache'[k] = cache[k]]_vars

\* an expired entry was replaced: the key holds the new payload and the new
\* time, nothing of the earlier fetch
C21_Witness ==
    \E t \in Threads :
        LET c == calls[t]
        IN  /\ c.pc = "returned" /\ c.kind = "fetched"
            /\ prev.kind = "fetched" /\ prev.key = c.key
            /\ prev.payload # c.payload
            /\ cache[c.key] = [timestamp |-> clock, data |-> c.payload]
            /\ clock >= cache_duration

(* C22: a hit changes nothing in the cache, the entry's timestamp          *)
(* included: a call is a hit exactly when less than 24 hours have passed   *)
(* since the last fetch of its key, however many hits came in between.     *)
C22_HitDoesNotRefresh ==
    [][\A t \in Threads :
          /\ (calls'[t] # calls[t] /\ calls'[t].kind = "hit")
               => /\ cache' = cache
                  /\ cache[calls'[t].key].timestamp = fetched[calls'[t].key].at
                  /\ calls'[t].checkedAt - fetched[calls'[t].key].at < cache_duration
          /\ (calls'[t] # calls[t] /\ calls'[t].pc = "awaiting"
                 /\ HasKey(fetched, calls'[t].key))
               => /\ cache' = cache
                  /\ calls'[t].checkedAt - fetched[calls'[t].key].at >= cache_duration]_vars

\* a hit 12 hours after the fetch, and the entry still carries the time of
\* the fetch
C22_Witness ==
    \E t \in Threads :
        LET c == calls[t]
        IN  /\ c.pc = "returned" /\ c.kind = "hit"
            /\ c.checkedAt >= 12
            /\ cache[c.key].timestamp = 0
            /\ cache[c.key].timestamp = fetched[c.key].at
            /\ clock = c.checkedAt + 12

(* C23: on one service the cache only grows: over every step of a fetcher  *)
(* call or of the clock, a key that is cached stays cached and the         *)
(* timestamp stored under it does not decrease.                            *)
C23_CacheOnlyGrows ==
    [][\A k \in DOMAIN cache :
          /\ HasKey(cache', k)
          /\ cache'[k].timestamp >= cache[k].timestamp]_vars

\* a second key was added 12 hours or more after the first, which is still
\* there with the time of its own fetch
C23_Witness ==
    \E t \in Threads :
        LET c == calls[t]
        IN  /\ c.pc = "returned" /\ c.kind = "fetched"
            /\ prev.kind = "fetched" /\ prev.key # c.key
            /\ DOMAIN cache = {prev.key, c.key}
            /\ cache[prev.key].timestamp < cache[c.key].timestamp
            /\ cache[prev.key].data = prev.payload

(* C24: a call that has found its key's entry valid finds the key present  *)
(* when it reads the entry, whatever other calls did in between, and       *)
(* returns the payload of the entry the last successful fetch of the key   *)
(* stored.                                                                 *)
C24_HitPathSafe ==
    [][\A t \in Threads :
          calls[t].pc = "valid"
          => /\ HasKey(cache, calls[t].key)
             /\ calls'[t] # calls[t]
                  => /\ calls'[t].pc = "returned"
                     /\ calls'[t].kind = "hit"
                     /\ calls'[t].payload = cache[calls[t].key].data
                     /\ calls'[t].payload = fetched[calls[t].key].data
                     /\ fetched[calls[t].key].fetcher = calls[t].fetcher]_vars

\* the entry a call found valid was overwritten before the call read it:
\* the hit returned the payload of an entry stored after its validity check
C24_Witness ==
    \E t \in Threads : \E u \in Threads \ {t} :
        LET c == calls[t]
            w == calls[u]
        IN  /\ c.pc = "returned" /\ c.kind = "hit"
            /\ w.pc = "returned" /\ w.kind = "fetched"
            /\ w.key = c.key
            /\ c.entry = w.entry
            /\ c.entry.timestamp > c.checkedAt
            /\ c.payload = w.payload

====
